---- MODULE Spec2Model ----
(***************************************************************************)
(* The media-processing service of src/main.py: one event loop that runs   *)
(* the coroutine process_media_endpoint, a pool of worker threads that run *)
(* the plain (def) endpoints and the live-stream generator, the shared     *)
(* record processing_status and the shared object system.                  *)
(*                                                                         *)
(* detector.py (AutonomousDecisionSystem) is not part of the sources; its  *)
(* methods process_video, generate_frames and stop_streaming are modelled  *)
(* from the design document (sections 3, 4.3 and 4.4).                     *)
(***************************************************************************)
EXTENDS Naturals, Integers, Sequences, FiniteSets, TLC

\* Bounds of the model.
MaxClients == 2
MaxFrames == 2
MaxYield == 2

Clients == 1..MaxClients

\* File extensions a client may upload (line 61 lower-cases the extension).
Exts == {".mp4", ".jpg"}

\* line 62: is_video = ext in ['.mp4', '.avi', '.mov', '.mkv']
IsVideo(ext) == ext \in {".mp4", ".avi", ".mov", ".mkv"}

\* The endpoints served by plain functions (lines 95, 99, 105).
SyncKinds == {"status", "stop", "feed"}

\* The endpoints a client polls or posts to around a media job (lines 95, 105).
PollKinds == {"status", "stop"}

\* lines 37-42: the record as constructed at import time.
InitialStatus ==
    [is_processing |-> FALSE, progress |-> 0, total_frames |-> 0, current_frame |-> 0]

\* The order in which a dict with these keys is iterated (insertion order).
Fields == <<"is_processing", "progress", "total_frames", "current_frame">>

\* A start update that leaves current_frame as the previous job left it.
StartUpdateNoReset(st) == [st EXCEPT !.is_processing = TRUE, !.progress = 0]

\* line 72: processing_status.update({"is_processing": True, "progress": 0, "current_frame": 0})
StartUpdate(st) ==
    [st EXCEPT !.is_processing = TRUE, !.progress = 0, !.current_frame = 0]

\* An end update that forgets to clear is_processing.
EndUpdateKeepsFlag(st) == [st EXCEPT !.progress = 100]

\* line 77: processing_status.update({"is_processing": False, "progress": 100})
EndUpdate(st) == [st EXCEPT !.is_processing = FALSE, !.progress = 100]

\* An except branch that forgets to clear is_processing.
ErrorUpdateKeepsFlag(st) == st

\* line 92: processing_status["is_processing"] = False
ErrorUpdate(st) == [st EXCEPT !.is_processing = FALSE]

\* section 4.3: the total frame count is determined up front.
OpenUpdate(st, n) == [st EXCEPT !.total_frames = n]

\* section 4.3: frames_done is updated once per processed frame, in frame order,
\* to the number k of frames processed so far.
FrameUpdate(st, k) == [st EXCEPT !.current_frame = k]

NoResult == [status |-> "none", body |-> "none"]

\* lines 85-90: the dictionary returned on the success path.
SuccessResponse(media_type) == [status |-> "success", body |-> media_type]

\* An except branch that swallows the error.
ErrorResponseAsSuccess(e) == [status |-> "success", body |-> e]

\* line 93: return {"status": "error", "message": str(e)}
ErrorResponse(e) == [status |-> "error", body |-> e]

VARIABLES
    kind,               \* client -> "none" (nothing issued yet) or the endpoint of its request
    pc,                 \* client -> position of its handler
    frames,             \* video client -> number of frames N of the source of its job in hand
    position,           \* video client -> frames process_video has processed in that job
    processing_status,  \* lines 37-42
    is_streaming,       \* the active flag of the shared system object
    raised,             \* media client -> the error its pipeline call raised, or "none"
    result,             \* media client -> the dictionary returned to the caller
    read,               \* status client -> the field values serialized so far
    yielded,            \* feed client -> frames its generator has yielded
    during,             \* client -> its poll or stop was issued during the video job now in flight
    stopped,            \* feed client -> its generator's position at the first stop, or "no"
    stopK               \* feed client -> frames it had yielded at that stop

vars == <<kind, pc, frames, position, processing_status, is_streaming, raised, result,
          read, yielded, during, stopped, stopK>>

\* A video job is in flight: start update done, process_video not yet returned or raised.
InFlight(r) == kind[r] = "video" /\ pc[r] \in {"opening", "frames"}

\* The generator of feed r has begun and not terminated.
Alive(r) == kind[r] = "feed" /\ pc[r] \in {"check", "body", "yielded"}

\* A handler that gives the loop back at every step (run on its own thread).
LoopIdleAlways == TRUE

\* lines 58-93: process_media_endpoint is a coroutine that never awaits, so the
\* event loop runs nothing else from its first line to its return; the same
\* holds for the serialization of a response.  The loop is idle when no
\* handler occupies it.
LoopIdle ==
    \A r \in Clients : ~InFlight(r) /\ ~(kind[r] = "status" /\ pc[r] = "serializing")

Init ==
    /\ kind = [r \in Clients |-> "none"]
    /\ pc = [r \in Clients |-> "none"]
    /\ frames = [r \in Clients |-> 0]
    /\ position = [r \in Clients |-> 0]
    /\ processing_status = InitialStatus
    /\ is_streaming = FALSE
    /\ raised = [r \in Clients |-> "none"]
    /\ result = [r \in Clients |-> NoResult]
    /\ read = [r \in Clients |-> <<>>]
    /\ yielded = [r \in Clients |-> 0]
    /\ during = [r \in Clients |-> FALSE]
    /\ stopped = [r \in Clients |-> "no"]
    /\ stopK = [r \in Clients |-> 0]

\* Client r has no request outstanding.
Quiet(r) == pc[r] \in {"none", "done", "served"}

\* A client issues a request of kind k once its previous one has been answered;
\* clients make their first request in the order of their numbers.
Issue(r, k) ==
    /\ Quiet(r)
    /\ \A q \in Clients : q < r => kind[q] # "none"
    /\ kind' = [kind EXCEPT ![r] = k]
    /\ pc' = [pc EXCEPT ![r] = "pending"]
    /\ during' = [during EXCEPT ![r] = k \in PollKinds /\ \E v \in Clients : InFlight(v)]
    /\ raised' = [raised EXCEPT ![r] = "none"]
    /\ result' = [result EXCEPT ![r] = NoResult]
    /\ read' = [read EXCEPT ![r] = <<>>]
    /\ yielded' = [yielded EXCEPT ![r] = 0]
    /\ stopped' = [stopped EXCEPT ![r] = "no"]
    /\ stopK' = [stopK EXCEPT ![r] = 0]
    /\ UNCHANGED <<frames, position, processing_status, is_streaming>>

\* POST /process-media/ with a file of extension ext (lines 58-62).
IssueMedia(r) ==
    \E ext \in Exts : Issue(r, IF IsVideo(ext) THEN "video" ELSE "image")

\* GET /processing-progress.
IssueStatus(r) == Issue(r, "status")

\* POST /stop-feed-signal.
IssueStop(r) == Issue(r, "stop")

\* GET /video_feed.
IssueFeed(r) == Issue(r, "feed")

\* lines 59-72: the loop starts the coroutine, which runs up to the call of process_video.
VideoStart(r) ==
    /\ kind[r] = "video" /\ pc[r] = "pending"
    /\ LoopIdle
    /\ processing_status' = StartUpdate(processing_status)
    /\ pc' = [pc EXCEPT ![r] = "opening"]
    /\ UNCHANGED <<kind, frames, position, is_streaming, raised, result, read,
                   yielded, during, stopped, stopK>>

\* process_video opens the source, of some number n of frames, and publishes the
\* total frame count.
VideoOpen(r) ==
    /\ kind[r] = "video" /\ pc[r] = "opening"
    /\ \E n \in 0..MaxFrames :
        /\ frames' = [frames EXCEPT ![r] = n]
        /\ processing_status' = OpenUpdate(processing_status, n)
    /\ pc' = [pc EXCEPT ![r] = "frames"]
    /\ UNCHANGED <<kind, position, is_streaming, raised, result, read,
                   yielded, during, stopped, stopK>>

\* Frames of job r that process_video has still to process.
FramesLeft(r) == position[r] < frames[r]

\* process_video processes the next frame and updates frames_done.
VideoFrame(r) ==
    /\ kind[r] = "video" /\ pc[r] = "frames"
    /\ FramesLeft(r)
    /\ position' = [position EXCEPT ![r] = @ + 1]
    /\ processing_status' = FrameUpdate(processing_status, position[r] + 1)
    /\ UNCHANGED <<kind, pc, frames, is_streaming, raised, result, read,
                   yielded, during, stopped, stopK>>

\* lines 75-90: process_video returns; the end update; the success dictionary.
VideoReturn(r) ==
    /\ kind[r] = "video" /\ pc[r] = "frames"
    /\ ~FramesLeft(r)
    /\ processing_status' = EndUpdate(processing_status)
    /\ result' = [result EXCEPT ![r] = SuccessResponse("video")]
    /\ pc' = [pc EXCEPT ![r] = "done"]
    /\ frames' = [frames EXCEPT ![r] = 0]
    /\ position' = [position EXCEPT ![r] = 0]
    /\ during' = [c \in Clients |-> FALSE]
    /\ UNCHANGED <<kind, is_streaming, raised, read,
                   yielded, stopped, stopK>>

\* The errors process_video can raise at its current position (section 7).
VideoErrors(r) ==
    IF pc[r] = "opening" THEN {"DecodeError"} ELSE {"EncodeError", "DetectionFailure"}

\* lines 75, 91-93: process_video raises; the except branch.
VideoRaise(r) ==
    /\ InFlight(r)
    /\ \E e \in VideoErrors(r) :
        /\ raised' = [raised EXCEPT ![r] = e]
        /\ result' = [result EXCEPT ![r] = ErrorResponse(e)]
    /\ processing_status' = ErrorUpdate(processing_status)
    /\ pc' = [pc EXCEPT ![r] = "done"]
    /\ frames' = [frames EXCEPT ![r] = 0]
    /\ position' = [position EXCEPT ![r] = 0]
    /\ during' = [c \in Clients |-> FALSE]
    /\ UNCHANGED <<kind, is_streaming, read,
                   yielded, stopped, stopK>>

\* lines 79-90: the image branch, process_image returning.
ImageReturn(r) ==
    /\ kind[r] = "image" /\ pc[r] = "pending"
    /\ LoopIdle
    /\ result' = [result EXCEPT ![r] = SuccessResponse("image")]
    /\ pc' = [pc EXCEPT ![r] = "done"]
    /\ UNCHANGED <<kind, frames, position, processing_status, is_streaming, raised, read,
                   yielded, during, stopped, stopK>>

\* lines 82, 91-93: process_image raises; the shared except branch.
ImageRaise(r) ==
    /\ kind[r] = "image" /\ pc[r] = "pending"
    /\ LoopIdle
    /\ \E e \in {"DecodeError", "DetectionFailure"} :
        /\ raised' = [raised EXCEPT ![r] = e]
        /\ result' = [result EXCEPT ![r] = ErrorResponse(e)]
    /\ processing_status' = ErrorUpdate(processing_status)
    /\ pc' = [pc EXCEPT ![r] = "done"]
    /\ UNCHANGED <<kind, frames, position, is_streaming, read,
                   yielded, during, stopped, stopK>>

\* The loop accepts a request for a plain endpoint and hands it to a worker thread.
Dispatch(r) ==
    /\ kind[r] \in SyncKinds /\ pc[r] = "pending"
    /\ LoopIdle
    /\ pc' = [pc EXCEPT ![r] = "dispatched"]
    /\ UNCHANGED <<kind, frames, position, processing_status, is_streaming, raised, result,
                   read, yielded, during, stopped, stopK>>

\* lines 96-97: the worker returns the record itself, not a copy.
StatusCall(r) ==
    /\ kind[r] = "status" /\ pc[r] = "dispatched"
    /\ pc' = [pc EXCEPT ![r] = "returned"]
    /\ UNCHANGED <<kind, frames, position, processing_status, is_streaming, raised, result,
                   read, yielded, during, stopped, stopK>>

\* The loop serializes the returned record, one field after the other.
StatusSerialize(r) ==
    /\ kind[r] = "status"
    /\ \/ pc[r] = "returned" /\ LoopIdle
       \/ pc[r] = "serializing"
    /\ read' = [read EXCEPT ![r] = Append(@, processing_status[Fields[Len(@) + 1]])]
    /\ pc' = [pc EXCEPT ![r] =
                IF Len(read[r]) + 1 = Len(Fields) THEN "served" ELSE "serializing"]
    /\ UNCHANGED <<kind, frames, position, processing_status, is_streaming, raised, result,
                   yielded, during, stopped, stopK>>

\* Where each live generator stands when the flag is cleared.
MarkStopped ==
    /\ stopped' = [r \in Clients |->
                     IF Alive(r) /\ stopped[r] = "no" THEN pc[r] ELSE stopped[r]]
    /\ stopK' = [r \in Clients |->
                     IF Alive(r) /\ stopped[r] = "no" THEN yielded[r] ELSE stopK[r]]

\* lines 106-108: the worker calls system.stop_streaming(), which clears the flag.
StopCall(r) ==
    /\ kind[r] = "stop" /\ pc[r] = "dispatched"
    /\ is_streaming' = FALSE
    /\ MarkStopped
    /\ pc' = [pc EXCEPT ![r] = "returned"]
    /\ UNCHANGED <<kind, frames, position, processing_status, raised, result, read,
                   yielded, during>>

\* The loop sends {"status": "stopped"}.
StopRespond(r) ==
    /\ kind[r] = "stop" /\ pc[r] = "returned"
    /\ LoopIdle
    /\ pc' = [pc EXCEPT ![r] = "served"]
    /\ UNCHANGED <<kind, frames, position, processing_status, is_streaming, raised, result,
                   read, yielded, during, stopped, stopK>>

\* lines 100-103: the worker creates the generator (not yet started) and the response.
FeedCall(r) ==
    /\ kind[r] = "feed" /\ pc[r] = "dispatched"
    /\ pc' = [pc EXCEPT ![r] = "returned"]
    /\ UNCHANGED <<kind, frames, position, processing_status, is_streaming, raised, result,
                   read, yielded, during, stopped, stopK>>

\* The loop sends what was yielded and asks a worker for the next element.
FeedPull(r) ==
    /\ kind[r] = "feed" /\ pc[r] \in {"returned", "yielded"}
    /\ LoopIdle
    /\ pc' = [pc EXCEPT ![r] = IF pc[r] = "returned" THEN "start" ELSE "check"]
    /\ UNCHANGED <<kind, frames, position, processing_status, is_streaming, raised, result,
                   read, yielded, during, stopped, stopK>>

\* section 3: the session is created on stream start with its active flag set.
GenStart(r) ==
    /\ kind[r] = "feed" /\ pc[r] = "start"
    /\ is_streaming' = TRUE
    /\ pc' = [pc EXCEPT ![r] = "check"]
    /\ UNCHANGED <<kind, frames, position, processing_status, raised, result, read,
                   yielded, during, stopped, stopK>>

\* section 4.4: the flag is checked at each loop iteration.
GenCheck(r) ==
    /\ kind[r] = "feed" /\ pc[r] = "check"
    /\ pc' = [pc EXCEPT ![r] = IF is_streaming THEN "body" ELSE "ended"]
    /\ UNCHANGED <<kind, frames, position, processing_status, is_streaming, raised, result,
                   read, yielded, during, stopped, stopK>>

\* section 4.4: decode, detect, annotate, encode, yield.
GenYield(r) ==
    /\ kind[r] = "feed" /\ pc[r] = "body"
    /\ yielded[r] < MaxYield
    /\ yielded' = [yielded EXCEPT ![r] = @ + 1]
    /\ pc' = [pc EXCEPT ![r] = "yielded"]
    /\ UNCHANGED <<kind, frames, position, processing_status, is_streaming, raised, result,
                   read, during, stopped, stopK>>

\* section 4.4: source exhaustion terminates the sequence.
GenExhausted(r) ==
    /\ kind[r] = "feed" /\ pc[r] = "body"
    /\ pc' = [pc EXCEPT ![r] = "ended"]
    /\ UNCHANGED <<kind, frames, position, processing_status, is_streaming, raised, result,
                   read, yielded, during, stopped, stopK>>

\* The loop closes the streaming response of a terminated generator.
FeedClose(r) ==
    /\ kind[r] = "feed" /\ pc[r] = "ended"
    /\ LoopIdle
    /\ pc' = [pc EXCEPT ![r] = "served"]
    /\ UNCHANGED <<kind, frames, position, processing_status, is_streaming, raised, result,
                   read, yielded, during, stopped, stopK>>

\* The steps of the event-loop thread inside a video job.
JobStep(r) == VideoOpen(r) \/ VideoFrame(r) \/ VideoReturn(r) \/ VideoRaise(r)

Next ==
    \E r \in Clients :
        \/ IssueMedia(r)
        \/ IssueStatus(r)
        \/ IssueStop(r)
        \/ IssueFeed(r)
        \/ VideoStart(r)
        \/ VideoOpen(r)
        \/ VideoFrame(r)
        \/ VideoReturn(r)
        \/ VideoRaise(r)
        \/ ImageReturn(r)
        \/ ImageRaise(r)
        \/ Dispatch(r)
        \/ StatusCall(r)
        \/ StatusSerialize(r)
        \/ StopCall(r)
        \/ StopRespond(r)
        \/ FeedCall(r)
        \/ FeedPull(r)
        \/ GenStart(r)
        \/ GenCheck(r)
        \/ GenYield(r)
        \/ GenExhausted(r)
        \/ FeedClose(r)

Spec == Init /\ [][Next]_vars

\* The service without the live stream: media jobs and status polls.
JobNext ==
    \E r \in Clients :
        \/ IssueMedia(r)
        \/ IssueStatus(r)
        \/ VideoStart(r)
        \/ VideoOpen(r)
        \/ VideoFrame(r)
        \/ VideoReturn(r)
        \/ VideoRaise(r)
        \/ ImageReturn(r)
        \/ ImageRaise(r)
        \/ Dispatch(r)
        \/ StatusCall(r)
        \/ StatusSerialize(r)

JobSpec == Init /\ [][JobNext]_vars

\* The media endpoint alone: status polls only read the record, and are left out
\* of the specification that states fairness.
MediaNext ==
    \E r \in Clients :
        \/ IssueMedia(r)
        \/ VideoStart(r)
        \/ VideoOpen(r)
        \/ VideoFrame(r)
        \/ VideoReturn(r)
        \/ VideoRaise(r)
        \/ ImageReturn(r)
        \/ ImageRaise(r)

\* The event-loop thread, once inside process_video, keeps running it: the call
\* is synchronous and nothing else is scheduled on that thread.
FairMediaSpec == Init /\ [][MediaNext]_vars /\ \A r \in Clients : WF_vars(JobStep(r))

(***************************************************************************)
(* Properties                                                              *)
(***************************************************************************)

\* The request of client r has been served: a status value delivered, the stop
\* written to the flag.
Served(r) ==
    \/ kind[r] = "status" /\ pc[r] = "served"
    \/ kind[r] = "stop" /\ pc[r] \in {"returned", "served"}

\* C1: every status query and stop signal issued while a video job is running
\* is served before that job finishes.
C1_PollsServedDuringJob ==
    [][\A v \in Clients : \A r \in Clients :
          (InFlight(v) /\ ~InFlight(v)' /\ during[r]) => Served(r)]_vars

\* C2: current_frame is 0 when a video job starts, then only grows, by one per
\* processed frame and in frame order, and equals N when the job completes.
C2_FramesDoneCountsFrames ==
    [][\A r \in Clients :
          /\ (~InFlight(r) /\ InFlight(r)') => processing_status'.current_frame = 0
          /\ (InFlight(r) /\ InFlight(r)') =>
                \/ processing_status'.current_frame = processing_status.current_frame
                \/ /\ processing_status'.current_frame = processing_status.current_frame + 1
                   /\ processing_status'.current_frame = position'[r]
          /\ (InFlight(r) /\ pc'[r] = "done" /\ result'[r].status = "success") =>
                /\ processing_status'.current_frame = frames[r]
                /\ ~processing_status'.is_processing]_vars

C2_Witness ==
    /\ ~processing_status.is_processing
    /\ processing_status.progress = 100
    /\ processing_status.current_frame = MaxFrames
    /\ \E r \in Clients : kind[r] = "video" /\ result[r].status = "success"

\* C3: at most one video job is in flight at any time.
C3_OneJobAtATime == Cardinality({r \in Clients : InFlight(r)}) <= 1

C3_Witness ==
    \E r \in Clients : \E q \in Clients :
        InFlight(r) /\ kind[q] = "video" /\ pc[q] = "pending"

\* C4: while is_processing is false, no step changes current_frame, except the
\* step that starts the next video job.
C4_IdleFramesStable ==
    [][(~processing_status.is_processing /\ ~processing_status'.is_processing)
          => processing_status'.current_frame = processing_status.current_frame]_vars

C4_Witness ==
    /\ ~processing_status.is_processing
    /\ processing_status.current_frame > 0
    /\ \E r \in Clients : kind[r] = "video" /\ pc[r] = "pending"

\* C5: after every step of a status read, all the fields read so far equal the
\* record as it stands, so the value delivered is the whole record of one
\* instant between two group updates.
C5_NoTornRead ==
    [][\A r \in Clients :
          (read'[r] # read[r] /\ read'[r] # <<>>) =>
              \A i \in 1..Len(read'[r]) : read'[r][i] = processing_status'[Fields[i]]]_vars

C5_Witness ==
    \E r \in Clients :
        /\ kind[r] = "status" /\ pc[r] = "served"
        /\ read[r] = <<FALSE, 100, MaxFrames, MaxFrames>>

\* C6: a video job in flight eventually ends with is_processing false, with
\* progress 100 when process_video returned and with an error result when it raised.
C6_JobFinalized ==
    \A r \in Clients :
        InFlight(r) ~>
            /\ kind[r] = "video" /\ pc[r] = "done"
            /\ ~processing_status.is_processing
            /\ result[r].status \in {"success", "error"}
            /\ result[r].status = "success" => processing_status.progress = 100

C6_Witness ==
    \E r \in Clients :
        /\ kind[r] = "video" /\ pc[r] = "done" /\ raised[r] = "DetectionFailure"
        /\ ~processing_status.is_processing

\* C7: a request whose pipeline call raised returns status "error" with the
\* error's message, never "success".
C7_ErrorsReachCaller ==
    \A r \in Clients :
        raised[r] # "none" =>
            /\ pc[r] = "done"
            /\ result[r].status = "error"
            /\ result[r].body = raised[r]

C7_Witness ==
    \E r \in Clients : \E q \in Clients :
        /\ kind[r] = "video" /\ raised[r] = "EncodeError" /\ result[r].status = "error"
        /\ kind[q] = "image" /\ raised[q] = "DecodeError" /\ result[q].status = "error"

\* C8: a stop that arrives between the yield of frame k and the request for
\* frame k+1 ends the stream at its next loop check: no further frame is
\* processed and exactly k frames are yielded.
C8_StopEndsStream ==
    \A r \in Clients :
        (kind[r] = "feed" /\ stopped[r] = "yielded") =>
            (pc[r] # "body" /\ yielded[r] = stopK[r])

\* C9: a session that has been stopped never yields another frame (beyond the
\* one it was producing when the stop arrived), whatever is called later.
C9_StoppedNeverYields ==
    \A r \in Clients :
        /\ stopped[r] \in {"yielded", "check"} => yielded[r] = stopK[r]
        /\ stopped[r] = "body" => yielded[r] <= stopK[r] + 1

\* C10: is_processing is true exactly when a video job is in flight.
C10_FlagTracksJob ==
    processing_status.is_processing <=> \E r \in Clients : InFlight(r)

C10_Witness ==
    \E r \in Clients : \E q \in Clients :
        /\ InFlight(r) /\ processing_status.is_processing
        /\ kind[q] = "image" /\ pc[q] = "pending"

====
